---- MODULE Spec2Model ----
(***************************************************************************)
(* Mock US Railway Cargo SSE server (src/server.js).                       *)
(*                                                                         *)
(* State: the shared fleet `trains` (createInitialTrains / updateTrains),  *)
(* the subscribers of GET /SSE/Stream with their interval timers, and the  *)
(* wall clock.  JavaScript strings that the code concatenates, slices or   *)
(* matches are sequences of one-character strings; legProgress is a        *)
(* fixed-point number in units of 1/ProgressScale; dwellRemainingHours is  *)
(* kept in units of 1/60 hour; timestamps are the wall clock value.        *)
(***************************************************************************)
EXTENDS Integers, Sequences, FiniteSets, TLC

\* ------------------------------------------------------------------------
\* Bounds of the model
\* ------------------------------------------------------------------------
\* subscribers that may connect to /SSE/Stream
MaxSubs == 2
\* the wall clock advances in phases; one TICK_MS interval is PhasesPerTick phases
PhasesPerTick == 2
\* last wall-clock phase explored with any subscribers coming and going
MaxTime == 2
\* last wall-clock phase explored with one steady subscriber
MaxSteadyTime == 14
\* phases explored with one filtering subscriber connected
MaxFilterTime == 2
\* cars per train explored (carCount draws above it are not explored)
MaxCars == 2
\* airway bills per car explored (a car that holds this many loads no new one)
MaxCargoPerCar == 2

\* ------------------------------------------------------------------------
\* Configuration (environment variables, src/server.js:36-48) under which
\* the model is checked
\* ------------------------------------------------------------------------
TICK_MS == 5000
TRAIN_COUNT == 1
MAX_CARS_PER_TRAIN == 1
MAX_AWBS_PER_CAR == 1
TIME_SCALE == 5400
MIN_DWELL_MINUTES == 300
MAX_DWELL_MINUTES == 900

\* legProgress 1.0 in fixed-point units
ProgressScale == 10000
\* deliveredAt: null / lastUpdated: undefined
NullTime == -1
\* offloadedAtStationCode: null
NullCode == <<>>

\* ------------------------------------------------------------------------
\* Strings
\* ------------------------------------------------------------------------
DigitChar == <<"0", "1", "2", "3", "4", "5", "6", "7", "8", "9">>

\* String(n) for a natural number n
RECURSIVE NumToStr(_)
NumToStr(n) ==
    IF n < 10 THEN <<DigitChar[n + 1]>>
    ELSE NumToStr(n \div 10) \o <<DigitChar[(n % 10) + 1]>>

\* str.padStart(width, "0")
RECURSIVE PadStart(_, _)
PadStart(str, width) ==
    IF Len(str) >= width THEN str ELSE PadStart(<<"0">> \o str, width)

DigitValue(c) == CHOOSE d \in 0..9 : DigitChar[d + 1] = c

\* parseInt(str) for a string of decimal digits
RECURSIVE ParseInt(_)
ParseInt(str) ==
    IF Len(str) = 0 THEN 0
    ELSE 10 * ParseInt(SubSeq(str, 1, Len(str) - 1)) + DigitValue(str[Len(str)])

\* the airway bill statuses
LOADED == <<"L", "O", "A", "D", "E", "D">>
IN_TRANSIT == <<"I", "N", "_", "T", "R", "A", "N", "S", "I", "T">>
DELIVERED == <<"D", "E", "L", "I", "V", "E", "R", "E", "D">>

UpperChars ==
    <<"A", "B", "C", "D", "E", "F", "G", "H", "I", "J", "K", "L", "M",
      "N", "O", "P", "Q", "R", "S", "T", "U", "V", "W", "X", "Y", "Z">>
LowerChars ==
    <<"a", "b", "c", "d", "e", "f", "g", "h", "i", "j", "k", "l", "m",
      "n", "o", "p", "q", "r", "s", "t", "u", "v", "w", "x", "y", "z">>

\* str.toLowerCase()
toLowerCase(str) ==
    [k \in 1..Len(str) |->
        IF \E i \in 1..26 : UpperChars[i] = str[k]
        THEN LowerChars[CHOOSE i \in 1..26 : UpperChars[i] = str[k]]
        ELSE str[k]]

\* str.toUpperCase()
toUpperCase(str) ==
    [k \in 1..Len(str) |->
        IF \E i \in 1..26 : LowerChars[i] = str[k]
        THEN UpperChars[CHOOSE i \in 1..26 : LowerChars[i] = str[k]]
        ELSE str[k]]

\* str.includes(part)
includes(str, part) ==
    \E i \in 0..(Len(str) - Len(part)) : SubSeq(str, i + 1, i + Len(part)) = part

\* ------------------------------------------------------------------------
\* Station registry and routes
\* ------------------------------------------------------------------------
LA == <<"L", "A">>
KC == <<"K", "C">>
CHI == <<"C", "H", "I">>
MEM == <<"M", "E", "M">>
ATL == <<"A", "T", "L">>
NYC == <<"N", "Y", "C">>

\* lat / lon in units of 1e-3 degree
STATIONS ==
    << [code |-> LA,  name |-> "Los Angeles Freight Yard",     lat |-> 34033, lon |-> -118238],
       [code |-> KC,  name |-> "Kansas City Intermodal",       lat |-> 39104, lon |-> -94598],
       [code |-> CHI, name |-> "Chicago Rail Hub",             lat |-> 41874, lon |-> -87640],
       [code |-> MEM, name |-> "Memphis Freight Terminal",     lat |-> 35149, lon |-> -90049],
       [code |-> ATL, name |-> "Atlanta Distribution Center",  lat |-> 33749, lon |-> -84388],
       [code |-> NYC, name |-> "New York Consolidation Yard",  lat |-> 40713, lon |-> -74006] >>

ROUTES ==
    << <<LA, KC, CHI, NYC>>,
       <<LA, MEM, ATL, NYC>>,
       <<CHI, KC, MEM, ATL>>,
       <<NYC, CHI, KC, LA>> >>

StationCodes == {STATIONS[i].code : i \in 1..Len(STATIONS)}

\* stationByCode(code) !== undefined
StationResolves(code) == code \in StationCodes

\* stationByCode(code), for a code that resolves
stationByCode(code) ==
    STATIONS[CHOOSE i \in 1..Len(STATIONS) :
                 /\ STATIONS[i].code = code
                 /\ \A j \in 1..(i - 1) : STATIONS[j].code # code]

\* R * c of haversineKm on the registry's coordinates, rounded to whole km
GreatCircleKm ==
    [a \in StationCodes |-> [b \in StationCodes |->
        IF a = b THEN 0
        ELSE LET p == {a, b} IN
             CASE p = {LA, KC}   -> 2178
               [] p = {LA, CHI}  -> 2804
               [] p = {LA, MEM}  -> 2575
               [] p = {LA, ATL}  -> 3110
               [] p = {LA, NYC}  -> 3936
               [] p = {KC, CHI}  -> 664
               [] p = {KC, MEM}  -> 597
               [] p = {KC, ATL}  -> 1089
               [] p = {KC, NYC}  -> 1761
               [] p = {CHI, MEM} -> 777
               [] p = {CHI, ATL} -> 947
               [] p = {CHI, NYC} -> 1145
               [] p = {MEM, ATL} -> 542
               [] p = {MEM, NYC} -> 1534
               [] p = {ATL, NYC} -> 1200]]

\* haversineKm between two stations: R * c || 1
haversineKm(fromStation, toStation) ==
    LET d == GreatCircleKm[fromStation.code][toStation.code]
    IN  IF d = 0 THEN 1 ELSE d

\* ------------------------------------------------------------------------
\* Random helpers
\* ------------------------------------------------------------------------
\* the values randInt(min, max) = floor(Math.random() * (max - min + 1)) + min
\* can return, Math.random() ranging over [0, 1)
randInt(min, max) ==
    LET n == max - min + 1
    IN  IF n > 0 THEN min..max
        ELSE IF n = 0 THEN {min}
        ELSE (min + n)..min

\* the values randChoice(arr) can return
randChoice(arr) == {arr[i + 1] : i \in randInt(0, Len(arr) - 1)}

\* The draws that are explored, per call site of Math.random / randInt /
\* randChoice (each a subset of what the call can return)
RouteDraws == {ROUTES[3]}
SpeedDraws == {40, 80}
LegProgressDraws == {5000}
NameDraws == {<<"P", "a", "c", "i", "f", "i", "c", " ", "R", "u", "n", "n", "e", "r">>}
TypeDraws == {"BOXCAR"}
OriginIdxDraws == {0}
DestIdxDraws == {1, 3}
PiecesDraws == {1}
WeightDraws == {500}
AwbIndexDraws == {100}
DwellDraws == {MIN_DWELL_MINUTES, MAX_DWELL_MINUTES}
SpeedDeltaDraws == {-5}

\* ------------------------------------------------------------------------
\* Identifiers
\* ------------------------------------------------------------------------
generateCarNumber(trainIndex, carIndex) ==
    <<"R">> \o NumToStr(trainIndex + 1) \o PadStart(NumToStr(carIndex + 1), 3)

generateAwbNumber(trainIndex, carIndex, awbIndex) ==
    <<"A", "W", "B", "-">> \o NumToStr(trainIndex + 1) \o NumToStr(carIndex + 1)
        \o PadStart(NumToStr(awbIndex + 1), 4)

\* ------------------------------------------------------------------------
\* Sequences of independent choices
\* ------------------------------------------------------------------------
\* all sequences s with s[i] \in sets[i]
RECURSIVE SeqProduct(_)
SeqProduct(sets) ==
    IF Len(sets) = 0 THEN {<<>>}
    ELSE {<<h>> \o t : h \in Head(sets), t \in SeqProduct(Tail(sets))}

Max(a, b) == IF a >= b THEN a ELSE b
Min(a, b) == IF a <= b THEN a ELSE b

\* ------------------------------------------------------------------------
\* Fleet state: createAirwayBillsForCar, createInitialTrains
\* ------------------------------------------------------------------------
\* one airway bill as createAirwayBillsForCar pushes it
InitialAwb(route, trainIndex, carIndex, i, originIdx, destIdx, pieces, weightKg, now) ==
    [awbNumber |-> generateAwbNumber(trainIndex, carIndex, i),
     originStationCode |-> route[originIdx + 1],
     destStationCode |-> route[destIdx + 1],
     pieces |-> pieces,
     weightKg |-> weightKg,
     status |-> LOADED,
     lastUpdated |-> now,
     loadedAt |-> now,
     deliveredAt |-> NullTime,
     offloadedAtStationCode |-> NullCode]

\* the airway bills the loop body can push for index i
InitialAwbChoices(route, trainIndex, carIndex, i, now) ==
    {InitialAwb(route, trainIndex, carIndex, i, originIdx, destIdx, pieces, weightKg, now) :
        <<originIdx, destIdx>> \in
            {od \in (randInt(0, Len(route) - 2) \cap OriginIdxDraws) \X DestIdxDraws :
                od[2] \in randInt(od[1] + 1, Len(route) - 1)},
        pieces \in randInt(1, 10) \cap PiecesDraws,
        weightKg \in randInt(500, 20000) \cap WeightDraws}

\* the lists createAirwayBillsForCar(route, trainIndex, carIndex) can return
createAirwayBillsForCar(route, trainIndex, carIndex, now) ==
    UNION {SeqProduct([i \in 1..count |->
                          InitialAwbChoices(route, trainIndex, carIndex, i - 1, now)]) :
              count \in randInt(1, MAX_AWBS_PER_CAR) \cap 0..MaxCargoPerCar}

\* the cars createInitialTrains can build for train i on a route
InitialCarChoices(route, i, c, now) ==
    {[carNumber |-> generateCarNumber(i, c), type |-> type, airwayBills |-> awbs] :
        type \in randChoice(<<"BOXCAR", "TANK", "HOPPER", "INTERMODAL", "FLATCAR">>) \cap TypeDraws,
        awbs \in createAirwayBillsForCar(route, i, c, now)}

TrainNames ==
    << <<"P", "a", "c", "i", "f", "i", "c", " ", "R", "u", "n", "n", "e", "r">>,
       <<"C", "o", "n", "t", "i", "n", "e", "n", "t", "a", "l", " ", "F", "r", "e", "i", "g", "h", "t">>,
       <<"A", "t", "l", "a", "n", "t", "i", "c", " ", "E", "x", "p", "r", "e", "s", "s">>,
       <<"H", "e", "a", "r", "t", "l", "a", "n", "d", " ", "C", "a", "r", "g", "o">>,
       <<"M", "o", "u", "n", "t", "a", "i", "n", " ", "H", "a", "u", "l", "e", "r">> >>

\* the trains createInitialTrains can push for index i
InitialTrainChoicesOn(routes, i, now) ==
    UNION {
      {[id |-> <<"T">> \o NumToStr(i + 1),
        name |-> name \o <<" ">> \o NumToStr(i + 1),
        route |-> route,
        currentLegIndex |-> 0,
        legProgress |-> legProgress,
        speedKmh |-> speedKmh,
        displaySpeedKmh |-> speedKmh,
        dwellRemainingHours |-> 0,
        cars |-> cars,
        lastUpdated |-> NullTime] :
          name \in randChoice(TrainNames) \cap NameDraws,
          legProgress \in (0..(ProgressScale - 1)) \cap LegProgressDraws,
          speedKmh \in randInt(40, 80) \cap SpeedDraws,
          cars \in UNION {SeqProduct([c \in 1..carCount |-> InitialCarChoices(route, i, c - 1, now)]) :
                             carCount \in randInt(5, MAX_CARS_PER_TRAIN) \cap 0..MaxCars}} :
      route \in routes}

InitialTrainChoices(i, now) ==
    InitialTrainChoicesOn(randChoice(ROUTES) \cap RouteDraws, i, now)

\* the fleets createInitialTrains can build
createInitialTrainsOf(trainCount, now) ==
    SeqProduct([i \in 1..trainCount |-> InitialTrainChoices(i - 1, now)])

createInitialTrains(now) == createInitialTrainsOf(TRAIN_COUNT, now)

\* ------------------------------------------------------------------------
\* updateTrains: one Simulation Clock step
\* ------------------------------------------------------------------------
\* dtHours = (TICK_MS / 3600000) * TIME_SCALE, in units of 1/60 hour
dtHours == (TICK_MS * TIME_SCALE) \div 60000

\* route[k] of the code (0-based)
At(route, k) == route[k + 1]

\* (mutant) the dwell timer is counted down without the floor at 0
DwellTick_NoFloor(train, nowIso) ==
    [train EXCEPT !.dwellRemainingHours = @ - dtHours,
                  !.displaySpeedKmh = 0,
                  !.lastUpdated = nowIso]

\* (mutant) the dwell countdown already resets the progress for the next leg
DwellTick_ResetsProgress(train, nowIso) ==
    [train EXCEPT !.dwellRemainingHours = Max(0, @ - dtHours),
                  !.legProgress = 0,
                  !.displaySpeedKmh = 0,
                  !.lastUpdated = nowIso]

\* (mutant) the dwell timer is not counted down
DwellTick_Stuck(train, nowIso) ==
    [train EXCEPT !.displaySpeedKmh = 0,
                  !.lastUpdated = nowIso]

\* step 1: count down the dwell timer
DwellTick(train, nowIso) ==
    [train EXCEPT !.dwellRemainingHours = Max(0, @ - dtHours),
                  !.displaySpeedKmh = 0,
                  !.lastUpdated = nowIso]

\* (mutant) the leg index wraps one leg early, so the final leg is skipped
Rollover_WrapsEarly(train) ==
    IF train.legProgress >= ProgressScale
    THEN [train EXCEPT !.currentLegIndex =
                           IF @ + 1 >= Len(train.route) - 2 THEN 0 ELSE @ + 1,
                       !.legProgress = 0]
    ELSE train

\* step 2: after a finished dwell, advance to the next leg and reset progress
Rollover(train) ==
    IF train.legProgress >= ProgressScale
    THEN [train EXCEPT !.currentLegIndex =
                           IF @ + 1 >= Len(train.route) - 1 THEN 0 ELSE @ + 1,
                       !.legProgress = 0]
    ELSE train

\* progressIncrement = (speedKmh * dtHours) / legDistanceKm
ProgressIncrement(train, legDistanceKm) ==
    (train.speedKmh * dtHours * ProgressScale) \div (60 * legDistanceKm)

\* (mutant) the movement step does not set displaySpeedKmh
Move_KeepsDisplaySpeed(train, legDistanceKm) ==
    [train EXCEPT !.legProgress = @ + ProgressIncrement(train, legDistanceKm)]

\* step 3: move along the active leg
Move(train, legDistanceKm) ==
    [train EXCEPT !.legProgress = @ + ProgressIncrement(train, legDistanceKm),
                  !.displaySpeedKmh = train.speedKmh]

\* (mutant) the arrival branch delivers without testing status !== "DELIVERED"
DeliverAwb_NoStatusGuard(awb, arrivalStationCode, nowIso) ==
    IF awb.destStationCode = arrivalStationCode
    THEN [awb EXCEPT !.status = DELIVERED,
                     !.lastUpdated = nowIso,
                     !.deliveredAt = nowIso,
                     !.offloadedAtStationCode = arrivalStationCode]
    ELSE awb

\* (mutant) the arrival branch delivers every undelivered airway bill,
\* whatever its destination
DeliverAwb_AnyDestination(awb, arrivalStationCode, nowIso) ==
    IF awb.status # DELIVERED
    THEN [awb EXCEPT !.status = DELIVERED,
                     !.lastUpdated = nowIso,
                     !.deliveredAt = nowIso,
                     !.offloadedAtStationCode = arrivalStationCode]
    ELSE awb

\* (mutant) the arrival branch delivers only airway bills that are IN_TRANSIT
DeliverAwb_OnlyInTransit(awb, arrivalStationCode, nowIso) ==
    IF awb.destStationCode = arrivalStationCode /\ awb.status = IN_TRANSIT
    THEN [awb EXCEPT !.status = DELIVERED,
                     !.lastUpdated = nowIso,
                     !.deliveredAt = nowIso,
                     !.offloadedAtStationCode = arrivalStationCode]
    ELSE awb

\* the arrival branch's update of one airway bill
DeliverAwb(awb, arrivalStationCode, nowIso) ==
    IF awb.destStationCode = arrivalStationCode /\ awb.status # DELIVERED
    THEN [awb EXCEPT !.status = DELIVERED,
                     !.lastUpdated = nowIso,
                     !.deliveredAt = nowIso,
                     !.offloadedAtStationCode = arrivalStationCode]
    ELSE awb

\* the airway bill the arrival branch builds for a car
NewAwb(train, arrivalStationCode, awbIndex, destIdx, pieces, weightKg, nowIso) ==
    [awbNumber |-> generateAwbNumber(ParseInt(Tail(train.id)) - 1, 0, awbIndex),
     originStationCode |-> arrivalStationCode,
     destStationCode |-> At(train.route, destIdx),
     pieces |-> pieces,
     weightKg |-> weightKg,
     status |-> LOADED,
     lastUpdated |-> nowIso,
     loadedAt |-> nowIso,
     deliveredAt |-> NullTime,
     offloadedAtStationCode |-> NullCode]

\* the index the new airway bill's destination is drawn from
NewAwbDestIdxChoices(train) ==
    randInt(train.currentLegIndex + 1, Len(train.route) - 1)

\* the airway bills the arrival branch can build for a car
NewAwbChoices(train, arrivalStationCode, nowIso) ==
    {NewAwb(train, arrivalStationCode, awbIndex, destIdx, pieces, weightKg, nowIso) :
        awbIndex \in randInt(100, 999) \cap AwbIndexDraws,
        destIdx \in NewAwbDestIdxChoices(train) \cap DestIdxDraws,
        pieces \in randInt(1, 10) \cap PiecesDraws,
        weightKg \in randInt(500, 20000) \cap WeightDraws}

\* whether the arrival branch may load a new airway bill into the car:
\* Math.random() < 0.35, explored while the car holds fewer than MaxCargoPerCar
MayLoadNewAwb(car) == Len(car.airwayBills) < MaxCargoPerCar

\* (mutant) the new airway bill is put at the front of the car's list
ArrivalCarChoices_Prepend(train, car, arrivalStationCode, nowIso) ==
    LET delivered ==
            [car EXCEPT !.airwayBills =
                [k \in 1..Len(car.airwayBills) |->
                    DeliverAwb(car.airwayBills[k], arrivalStationCode, nowIso)]]
    IN  {delivered} \cup
        (IF MayLoadNewAwb(car)
         THEN {[delivered EXCEPT !.airwayBills = <<newAwb>> \o @] :
                  newAwb \in NewAwbChoices(train, arrivalStationCode, nowIso)}
         ELSE {})

\* the arrival branch for one car: deliver, then randomly load a new airway bill
ArrivalCarChoices(train, car, arrivalStationCode, nowIso) ==
    LET delivered ==
            [car EXCEPT !.airwayBills =
                [k \in 1..Len(car.airwayBills) |->
                    DeliverAwb(car.airwayBills[k], arrivalStationCode, nowIso)]]
    IN  {delivered} \cup
        (IF MayLoadNewAwb(car)
         THEN {[delivered EXCEPT !.airwayBills = Append(@, newAwb)] :
                  newAwb \in NewAwbChoices(train, arrivalStationCode, nowIso)}
         ELSE {})

\* (mutant) the arrival branch forgets to clamp legProgress
ArrivalProgress_Unclamped(legProgress) == legProgress

\* train.legProgress = 1 on arrival
ArrivalProgress(legProgress) == ProgressScale

\* (mutant) the arrival branch leaves displaySpeedKmh at the travelling speed
Arrive_KeepsDisplaySpeed(train, toCode, nowIso) ==
    {[train EXCEPT !.legProgress = ArrivalProgress(@),
                   !.cars = cars,
                   !.dwellRemainingHours = dwellMinutes,
                   !.lastUpdated = nowIso] :
        cars \in SeqProduct([c \in 1..Len(train.cars) |->
                                ArrivalCarChoices(train, train.cars[c], toCode, nowIso)]),
        dwellMinutes \in randInt(MIN_DWELL_MINUTES, MAX_DWELL_MINUTES) \cap DwellDraws}

\* step 4: arrival at toCode
Arrive(train, toCode, nowIso) ==
    {[train EXCEPT !.legProgress = ArrivalProgress(@),
                   !.cars = cars,
                   !.dwellRemainingHours = dwellMinutes,
                   !.displaySpeedKmh = 0,
                   !.lastUpdated = nowIso] :
        cars \in SeqProduct([c \in 1..Len(train.cars) |->
                                ArrivalCarChoices(train, train.cars[c], toCode, nowIso)]),
        dwellMinutes \in randInt(MIN_DWELL_MINUTES, MAX_DWELL_MINUTES) \cap DwellDraws}

\* legProgress > 0.05
PastDepartureThreshold(legProgress) == legProgress * 100 > 5 * ProgressScale

\* (mutant) the mid-transit branch tests status !== "IN_TRANSIT" instead of
\* status === "LOADED"
MarkInTransit_AnyStatus(awb, originCode, legProgress, nowIso) ==
    IF /\ awb.originStationCode = originCode
       /\ awb.status # IN_TRANSIT
       /\ PastDepartureThreshold(legProgress)
    THEN [awb EXCEPT !.status = IN_TRANSIT, !.lastUpdated = nowIso]
    ELSE awb

\* the mid-transit branch's update of one airway bill
MarkInTransit(awb, originCode, legProgress, nowIso) ==
    IF /\ awb.originStationCode = originCode
       /\ awb.status = LOADED
       /\ PastDepartureThreshold(legProgress)
    THEN [awb EXCEPT !.status = IN_TRANSIT, !.lastUpdated = nowIso]
    ELSE awb

\* (mutant) the perturbed speed is not clamped
TweakSpeed_Unclamped(speedKmh, delta) == speedKmh + delta

\* Math.max(30, Math.min(110, speedKmh + delta))
TweakSpeed(speedKmh, delta) == Max(30, Min(110, speedKmh + delta))

\* step 5: still in transit
MidTransit(train, nowIso) ==
    LET originCode == At(train.route, train.currentLegIndex)
        marked ==
            [train EXCEPT !.cars =
                [c \in 1..Len(train.cars) |->
                    [train.cars[c] EXCEPT !.airwayBills =
                        [k \in 1..Len(train.cars[c].airwayBills) |->
                            MarkInTransit(train.cars[c].airwayBills[k], originCode,
                                          train.legProgress, nowIso)]]],
                          !.lastUpdated = nowIso]
    IN  {marked} \cup
        {[marked EXCEPT !.speedKmh = TweakSpeed(@, delta)] :
            delta \in randInt(-5, 5) \cap SpeedDeltaDraws}

\* the body of trains.forEach: the states one train can be left in
UpdateTrain(train, nowIso) ==
    IF Len(train.route) < 2 THEN {train}
    ELSE IF train.dwellRemainingHours > 0 THEN {DwellTick(train, nowIso)}
    ELSE LET rolled == Rollover(train)
             fromCode == At(rolled.route, rolled.currentLegIndex)
             toCode == At(rolled.route, rolled.currentLegIndex + 1)
         IN  IF ~StationResolves(fromCode) \/ ~StationResolves(toCode) THEN {rolled}
             ELSE LET moved == Move(rolled, haversineKm(stationByCode(fromCode),
                                                        stationByCode(toCode)))
                  IN  IF moved.legProgress >= ProgressScale
                      THEN Arrive(moved, toCode, nowIso)
                      ELSE MidTransit(moved, nowIso)

\* the fleets updateTrains can leave behind
updateTrains(fleet, nowIso) ==
    SeqProduct([i \in 1..Len(fleet) |-> UpdateTrain(fleet[i], nowIso)])

\* ------------------------------------------------------------------------
\* getTrainSnapshots
\* ------------------------------------------------------------------------
\* a / b rounded to the nearest integer (toFixed)
RoundDiv(a, b) == (2 * a + b) \div (2 * b)

\* (mutant) the interpolation runs from the destination towards the origin
Interpolate_Reversed(from, to, t) ==
    to * 100 + RoundDiv((from - to) * t, ProgressScale \div 100)

\* parseFloat((from + (to - from) * t).toFixed(5)), in units of 1e-5 degree,
\* from and to in units of 1e-3 degree, t in units of 1/ProgressScale
Interpolate(from, to, t) ==
    from * 100 + RoundDiv((to - from) * t, ProgressScale \div 100)

\* currentLocation: { lat: null, lon: null }
NullLocation == [lat |-> "null", lon |-> "null"]

\* (mutant) the dwelling snapshot takes the station the leg departs from
DwellingSnapshot_LegOrigin(train, now) ==
    LET stationCode == At(train.route, train.currentLegIndex)
    IN  [id |-> train.id,
         name |-> train.name,
         speedKmh |-> 0,
         route |-> train.route,
         fromStationCode |-> stationCode,
         toStationCode |-> stationCode,
         legProgress |-> 0,
         currentLocation |->
             IF StationResolves(stationCode)
             THEN [lat |-> stationByCode(stationCode).lat * 100,
                   lon |-> stationByCode(stationCode).lon * 100]
             ELSE NullLocation,
         cars |-> train.cars,
         lastUpdated |-> now]

\* the snapshot of a train dwelling at a station after arrival (lat / lon in
\* units of 1e-5 degree)
DwellingSnapshot(train, now) ==
    LET stationCode == At(train.route, train.currentLegIndex + 1)
    IN  [id |-> train.id,
         name |-> train.name,
         speedKmh |-> 0,
         route |-> train.route,
         fromStationCode |-> stationCode,
         toStationCode |-> stationCode,
         legProgress |-> 0,
         currentLocation |->
             IF StationResolves(stationCode)
             THEN [lat |-> stationByCode(stationCode).lat * 100,
                   lon |-> stationByCode(stationCode).lon * 100]
             ELSE NullLocation,
         cars |-> train.cars,
         lastUpdated |-> now]

\* the snapshot of a train on its leg; legProgress in units of 1/1000
MovingSnapshot(train, now) ==
    LET fromCode == At(train.route, train.currentLegIndex)
        toCode == At(train.route, train.currentLegIndex + 1)
        t == Min(Max(train.legProgress, 0), ProgressScale)
    IN  IF ~StationResolves(fromCode) \/ ~StationResolves(toCode)
        THEN [id |-> train.id,
              name |-> train.name,
              speedKmh |-> train.displaySpeedKmh,
              route |-> train.route,
              fromStationCode |-> fromCode,
              toStationCode |-> toCode,
              legProgress |-> train.legProgress,
              currentLocation |-> NullLocation,
              cars |-> train.cars,
              lastUpdated |-> now]
        ELSE LET fromStation == stationByCode(fromCode)
                 toStation == stationByCode(toCode)
             IN  [id |-> train.id,
                  name |-> train.name,
                  speedKmh |-> train.displaySpeedKmh,
                  route |-> train.route,
                  fromStationCode |-> fromCode,
                  toStationCode |-> toCode,
                  legProgress |-> RoundDiv(t * 1000, ProgressScale),
                  currentLocation |->
                      [lat |-> Interpolate(fromStation.lat, toStation.lat, t),
                       lon |-> Interpolate(fromStation.lon, toStation.lon, t)],
                  cars |-> train.cars,
                  lastUpdated |-> now]

TrainSnapshot(train, now) ==
    IF train.dwellRemainingHours > 0 /\ train.legProgress >= ProgressScale
    THEN DwellingSnapshot(train, now)
    ELSE MovingSnapshot(train, now)

getTrainSnapshots(fleet, now) ==
    [i \in 1..Len(fleet) |-> TrainSnapshot(fleet[i], now)]

\* ------------------------------------------------------------------------
\* applyFilters
\* ------------------------------------------------------------------------
\* a query parameter: absent, a string, or (a repeated parameter) an array
Undefined == [kind |-> "undefined", str |-> <<>>]
StringParam(str) == [kind |-> "string", str |-> str]
ArrayParam(str) == [kind |-> "array", str |-> str]

\* JavaScript truthiness of a query parameter
Truthy(param) ==
    \/ param.kind = "array"
    \/ param.kind = "string" /\ Len(param.str) > 0

\* const awbFilter = awb || airwayBill
awbFilterOf(query) == IF Truthy(query.awb) THEN query.awb ELSE query.airwayBill

\* value || ""
OrEmpty(value) == IF value = NullCode THEN <<>> ELSE value

\* matchesString(value, filter), value a string
matchesString(value, filter) ==
    /\ filter.kind = "string"
    /\ includes(toLowerCase(value), toLowerCase(filter.str))

\* (mutant) an airway bill passes when any one of the present matchers accepts it
PassesAwbAndStation_AnyMatcher(awbObj, query) ==
    \/ ~Truthy(awbFilterOf(query)) /\ ~Truthy(query.station)
    \/ Truthy(awbFilterOf(query)) /\ matchesString(awbObj.awbNumber, awbFilterOf(query))
    \/ /\ Truthy(query.station)
       /\ \/ matchesString(awbObj.originStationCode, query.station)
          \/ matchesString(awbObj.destStationCode, query.station)
          \/ matchesString(OrEmpty(awbObj.offloadedAtStationCode), query.station)

\* the checks of the airway bill filter callback that precede the status check
PassesAwbAndStation(awbObj, query) ==
    /\ Truthy(awbFilterOf(query)) => matchesString(awbObj.awbNumber, awbFilterOf(query))
    /\ Truthy(query.station) =>
           \/ matchesString(awbObj.originStationCode, query.station)
           \/ matchesString(awbObj.destStationCode, query.station)
           \/ matchesString(OrEmpty(awbObj.offloadedAtStationCode), query.station)

\* status.toUpperCase() is not a function
StatusCheckThrows(query) == Truthy(query.status) /\ query.status.kind # "string"

\* (mutant) the status is compared without status.toUpperCase()
AwbSurvives_NoCaseNormalization(awbObj, query) ==
    /\ PassesAwbAndStation(awbObj, query)
    /\ Truthy(query.status) =>
           /\ query.status.kind = "string"
           /\ awbObj.status = query.status.str

\* the airway bill filter callback
AwbSurvives(awbObj, query) ==
    /\ PassesAwbAndStation(awbObj, query)
    /\ Truthy(query.status) =>
           /\ query.status.kind = "string"
           /\ awbObj.status = toUpperCase(query.status.str)

\* (mutant) the car number is matched without lower-casing
CarsAfterCarNumber_CaseSensitive(train, query) ==
    IF Truthy(query.carNumber)
    THEN SelectSeq(train.cars,
                   LAMBDA car : /\ query.carNumber.kind = "string"
                                /\ includes(car.carNumber, query.carNumber.str))
    ELSE train.cars

\* the cars that reach the airway bill filtering of a train
CarsAfterCarNumber(train, query) ==
    IF Truthy(query.carNumber)
    THEN SelectSeq(train.cars, LAMBDA car : matchesString(car.carNumber, query.carNumber))
    ELSE train.cars

CargoFiltersPresent(query) ==
    Truthy(awbFilterOf(query)) \/ Truthy(query.station) \/ Truthy(query.status)

\* (mutant) the surviving airway bills of a car are collected newest first
FilteredCars_NewestFirst(train, query) ==
    IF CargoFiltersPresent(query)
    THEN LET pruned ==
                 [c \in 1..Len(CarsAfterCarNumber(train, query)) |->
                     [CarsAfterCarNumber(train, query)[c] EXCEPT !.airwayBills =
                         LET kept == SelectSeq(@, LAMBDA awbObj : AwbSurvives(awbObj, query))
                         IN  [k \in 1..Len(kept) |-> kept[Len(kept) + 1 - k]]]]
         IN  SelectSeq(pruned, LAMBDA car : Len(car.airwayBills) > 0)
    ELSE CarsAfterCarNumber(train, query)

\* filteredCars of a train that passed the trainName check
FilteredCars(train, query) ==
    IF CargoFiltersPresent(query)
    THEN LET pruned ==
                 [c \in 1..Len(CarsAfterCarNumber(train, query)) |->
                     [CarsAfterCarNumber(train, query)[c] EXCEPT !.airwayBills =
                         SelectSeq(@, LAMBDA awbObj : AwbSurvives(awbObj, query))]]
         IN  SelectSeq(pruned, LAMBDA car : Len(car.airwayBills) > 0)
    ELSE CarsAfterCarNumber(train, query)

\* (mutant) the train name is matched without testing that the filter is present
PassesTrainName_NoPresenceTest(train, query) ==
    matchesString(train.name, query.trainName)

\* if (trainName && !matchesString(train.name, trainName)) return null
PassesTrainName(train, query) ==
    Truthy(query.trainName) => matchesString(train.name, query.trainName)

\* whether applyFilters(snapshots, query) throws a TypeError
applyFiltersThrows(snapshots, query) ==
    /\ StatusCheckThrows(query)
    /\ \E i \in 1..Len(snapshots) :
          /\ PassesTrainName(snapshots[i], query)
          /\ \E c \in 1..Len(CarsAfterCarNumber(snapshots[i], query)) :
                \E k \in 1..Len(CarsAfterCarNumber(snapshots[i], query)[c].airwayBills) :
                    PassesAwbAndStation(
                        CarsAfterCarNumber(snapshots[i], query)[c].airwayBills[k], query)

\* applyFilters(snapshots, query), when it returns
applyFilters(snapshots, query) ==
    LET kept == SelectSeq(snapshots,
                    LAMBDA train : /\ PassesTrainName(train, query)
                                   /\ Len(FilteredCars(train, query)) > 0)
    IN  [i \in 1..Len(kept) |-> [kept[i] EXCEPT !.cars = FilteredCars(kept[i], query)]]

\* (mutant) applyFilters assigns the filtered list to the car it was given
\* (car.airwayBills = filteredAwbs), and the snapshot's cars are the fleet's
fleetAfterProjection_InPlace(fleet, query) ==
    IF CargoFiltersPresent(query) /\ ~StatusCheckThrows(query)
    THEN [i \in 1..Len(fleet) |->
            [fleet[i] EXCEPT !.cars =
                [c \in 1..Len(fleet[i].cars) |->
                    [fleet[i].cars[c] EXCEPT !.airwayBills =
                        SelectSeq(@, LAMBDA awbObj : AwbSurvives(awbObj, query))]]]]
    ELSE fleet

\* The global train state after getTrainSnapshots and applyFilters have run.
\* A snapshot shares train.cars (and so every car and airway bill object)
\* with the fleet; both functions build new arrays and objects (map, filter,
\* object spread) and assign to no object they were given.
fleetAfterProjection(fleet, query) == fleet

\* ------------------------------------------------------------------------
\* The server: GET /SSE/Stream subscribers, their interval timers, the clock
\* ------------------------------------------------------------------------
VARIABLES
    trains,           \* the global train state
    now,              \* wall clock, in phases since process start
    subs,             \* per connection: state, req.query, eventId, interval timer
    crashed,          \* the process died of an uncaught exception
    lastEvent,        \* the last railUpdate event written to a response
    stepsInInterval   \* updateTrains calls in the current TICK_MS interval

vars == <<trains, now, subs, crashed, lastEvent, stepsInInterval>>

Subs == 1..MaxSubs

EmptyQuery ==
    [awb |-> Undefined, airwayBill |-> Undefined, trainName |-> Undefined,
     carNumber |-> Undefined, station |-> Undefined, status |-> Undefined]

\* ?status=loaded&status=delivered
RepeatedStatusQuery == [EmptyQuery EXCEPT !.status = ArrayParam(<<"l", "o", "a", "d", "e", "d">>)]

\* ?awb=AWB-110101&status=loaded&status=delivered
RepeatedStatusLateAwbQuery ==
    [RepeatedStatusQuery EXCEPT
        !.awb = StringParam(<<"A", "W", "B", "-", "1", "1", "0", "1", "0", "1">>)]

\* the req.query values explored
QueryChoices == {EmptyQuery, RepeatedStatusQuery, RepeatedStatusLateAwbQuery}

\* ?awb=awb-12
AwbQuery == [EmptyQuery EXCEPT !.awb = StringParam(<<"a", "w", "b", "-", "1", "2">>)]

\* ?station=kc
StationQuery == [EmptyQuery EXCEPT !.station = StringParam(<<"k", "c">>)]

\* ?airwayBill=0001&station=kc
AwbStationQuery ==
    [EmptyQuery EXCEPT !.airwayBill = StringParam(<<"0", "0", "0", "1">>),
                       !.station = StringParam(<<"k", "c">>)]

\* ?awb=0001&station=kc&status=delivered
AwbStationStatusQuery ==
    [EmptyQuery EXCEPT !.awb = StringParam(<<"0", "0", "0", "1">>),
                       !.station = StringParam(<<"k", "c">>),
                       !.status = StringParam(<<"d", "e", "l", "i", "v", "e", "r", "e", "d">>)]

\* ?status=delivered, ?status=In_Transit, ?status=LOADED
StatusDeliveredQuery == [EmptyQuery EXCEPT !.status = StringParam(<<"d", "e", "l", "i", "v", "e", "r", "e", "d">>)]
StatusInTransitQuery == [EmptyQuery EXCEPT !.status = StringParam(<<"I", "n", "_", "T", "r", "a", "n", "s", "i", "t">>)]
StatusLoadedQuery == [EmptyQuery EXCEPT !.status = StringParam(<<"L", "O", "A", "D", "E", "D">>)]

\* ?station=chicago
StationNameQuery == [EmptyQuery EXCEPT !.station = StringParam(<<"c", "h", "i", "c", "a", "g", "o">>)]

\* ?trainName=pacific, ?trainName=atlantic
TrainNameQuery == [EmptyQuery EXCEPT !.trainName = StringParam(<<"p", "a", "c", "i", "f", "i", "c">>)]
OtherTrainNameQuery == [EmptyQuery EXCEPT !.trainName = StringParam(<<"a", "t", "l", "a", "n", "t", "i", "c">>)]

\* ?carNumber=r1002, ?carNumber=00, ?carNumber=r9
CarNumberQuery == [EmptyQuery EXCEPT !.carNumber = StringParam(<<"r", "1", "0", "0", "2">>)]
AnyCarNumberQuery == [EmptyQuery EXCEPT !.carNumber = StringParam(<<"0", "0">>)]
NoCarNumberQuery == [EmptyQuery EXCEPT !.carNumber = StringParam(<<"r", "9">>)]

\* ?trainName=RUNNER&carNumber=r1002
TrainNameCarNumberQuery ==
    [EmptyQuery EXCEPT !.trainName = StringParam(<<"R", "U", "N", "N", "E", "R">>),
                       !.carNumber = StringParam(<<"r", "1", "0", "0", "2">>)]

\* the req.query values explored with one filtering subscriber
FilterQueryChoices ==
    {AwbStationQuery, StatusDeliveredQuery, StationNameQuery, TrainNameCarNumberQuery}

\* a connection: state of the request, req.query, the interval timer (armed,
\* next firing time), eventId, and how often the timer has fired
IdleSub ==
    [state |-> "idle", query |-> EmptyQuery, connectedAt |-> NullTime,
     interval |-> FALSE, nextFire |-> NullTime, eventId |-> 1, timerFirings |-> 0]

NoEvent == [to |-> 0, id |-> 0, trains |-> <<>>]

\* the state when app.listen is reached, the fleet being `fleet`
InitWith(fleet) ==
    /\ now = 0
    /\ trains = fleet
    /\ subs = [s \in Subs |-> IdleSub]
    /\ crashed = FALSE
    /\ lastEvent = NoEvent
    /\ stepsInInterval = 0

Init == \E fleet \in createInitialTrains(0) : InitWith(fleet)

\* sendUpdate of connection s with req.query = query: the clock step, then
\* projection and filtering; `sent` tells whether the event was written
\* (applyFilters did not throw)
sendUpdate(s, query, sent) ==
    \E fleet \in updateTrains(trains, now) :
        /\ trains' = fleetAfterProjection(fleet, query)
        /\ stepsInInterval' = stepsInInterval + 1
        /\ sent = ~applyFiltersThrows(getTrainSnapshots(fleet, now), query)
        /\ lastEvent' =
               IF sent
               THEN [to |-> s, id |-> subs[s].eventId,
                     trains |-> applyFilters(getTrainSnapshots(fleet, now), query)]
               ELSE lastEvent

\* app.get("/SSE/Stream"): first update at once, then setInterval(sendUpdate, TICK_MS).
\* An exception out of the first sendUpdate ends the request before the
\* interval and the close handler are installed.
ConnectWith(s, queries) ==
    /\ ~crashed
    /\ subs[s].state = "idle"
    /\ \A r \in Subs : r < s => subs[r].state # "idle"
    /\ \E query \in queries, sent \in BOOLEAN :
          /\ sendUpdate(s, query, sent)
          /\ subs' = [subs EXCEPT ![s] =
                 IF sent
                 THEN [state |-> "open", query |-> query, connectedAt |-> now,
                       interval |-> TRUE, nextFire |-> now + PhasesPerTick,
                       eventId |-> 2, timerFirings |-> 0]
                 ELSE [state |-> "failed", query |-> query, connectedAt |-> now,
                       interval |-> FALSE, nextFire |-> NullTime,
                       eventId |-> 1, timerFirings |-> 0]]
    /\ UNCHANGED <<now, crashed>>

Connect(s) == ConnectWith(s, QueryChoices)

\* the interval timer of connection s fires: sendUpdate.  An exception out of
\* the timer callback is uncaught and ends the process.
TimerFires(s) ==
    /\ ~crashed
    /\ subs[s].interval
    /\ subs[s].nextFire = now
    /\ \E sent \in BOOLEAN :
          /\ sendUpdate(s, subs[s].query, sent)
          /\ subs' = [subs EXCEPT ![s].nextFire = now + PhasesPerTick,
                                  ![s].timerFirings = @ + 1,
                                  ![s].eventId = IF sent THEN @ + 1 ELSE @]
          /\ crashed' = ~sent
    /\ UNCHANGED now

\* (mutant) the close handler does not clear the interval
Close_NoClearInterval(s) ==
    /\ ~crashed
    /\ subs[s].state = "open"
    /\ subs' = [subs EXCEPT ![s].state = "closed"]
    /\ UNCHANGED <<trains, now, crashed, lastEvent, stepsInInterval>>

\* req.on("close"): clearInterval(interval)
Close(s) ==
    /\ ~crashed
    /\ subs[s].state = "open"
    /\ subs' = [subs EXCEPT ![s].state = "closed", ![s].interval = FALSE]
    /\ UNCHANGED <<trains, now, crashed, lastEvent, stepsInInterval>>

\* (mutant) the simulation runs on a clock of its own: every phase of the
\* wall clock steps the fleet, whoever is connected
AdvanceTime_StepsFleet(limit) ==
    /\ ~crashed
    /\ now < limit
    /\ \A s \in Subs : subs[s].interval => subs[s].nextFire > now
    /\ now' = now + 1
    /\ stepsInInterval' = IF (now + 1) % PhasesPerTick = 0 THEN 0 ELSE stepsInInterval
    /\ \E fleet \in updateTrains(trains, now) : trains' = fleet
    /\ UNCHANGED <<subs, crashed, lastEvent>>

\* the wall clock advances by one phase once every due timer has fired
AdvanceTime(limit) ==
    /\ ~crashed
    /\ now < limit
    /\ \A s \in Subs : subs[s].interval => subs[s].nextFire > now
    /\ now' = now + 1
    /\ stepsInInterval' = IF (now + 1) % PhasesPerTick = 0 THEN 0 ELSE stepsInInterval
    /\ UNCHANGED <<trains, subs, crashed, lastEvent>>

Next ==
    \/ \E s \in Subs : Connect(s)
    \/ \E s \in Subs : TimerFires(s)
    \/ \E s \in Subs : Close(s)
    \/ AdvanceTime(MaxTime)

Spec == Init /\ [][Next]_vars

\* app.get("/api/info"): the handler answers with a constant object; it reads
\* and writes nothing of the process state.
ApiInfo ==
    /\ ~crashed
    /\ UNCHANGED vars

\* Subscribers without criteria come and go while /api/info is polled.
ServeNext ==
    \/ \E s \in Subs : ConnectWith(s, {EmptyQuery})
    \/ \E s \in Subs : TimerFires(s)
    \/ \E s \in Subs : Close(s)
    \/ ApiInfo
    \/ AdvanceTime(MaxTime)

SpecServe == Init /\ [][ServeNext]_vars

\* One subscriber connects when the process has started and stays connected:
\* the fleet's long run under a steady tick.
SteadyNext ==
    \/ Connect(1)
    \/ TimerFires(1)
    \/ subs[1].state # "idle" /\ AdvanceTime(MaxSteadyTime)

SpecSteady == Init /\ [][SteadyNext]_vars

\* The process started with TRAIN_COUNT=0 in its environment.
ZeroTrainCount == 0

InitZeroTrainCount ==
    \E fleet \in createInitialTrainsOf(ZeroTrainCount, 0) : InitWith(fleet)

SpecZeroTrainCount == InitZeroTrainCount /\ [][Next]_vars

\* The route catalog names a station that is not in the registry: the third
\* stop of the route CHI, KC, MEM, ATL is the unknown code XX.
UnknownStationRoute == <<CHI, KC, <<"X", "X">>, ATL>>

InitUnknownStation ==
    \E fleet \in SeqProduct([i \in 1..TRAIN_COUNT |->
                                InitialTrainChoicesOn({UnknownStationRoute}, i - 1, 0)]) :
        InitWith(fleet)

SpecUnknownStation == InitUnknownStation /\ [][SteadyNext]_vars

\* The interval timer of a subscriber that stays connected for ever: the
\* clock passes from one phase of the TICK_MS interval to the next.
TimerDue == ~crashed /\ now' = (now + 1) % PhasesPerTick

\* The clock step of the sendUpdate call the timer makes: each call starts
\* with updateTrains.  The clock is kept modulo the interval and the
\* timestamps read its start value, so that the states are finitely many;
\* timestamps do not influence the movement.
Tick ==
    /\ TimerDue
    /\ \E fleet \in updateTrains(trains, 0) : trains' = fleet
    /\ UNCHANGED <<subs, crashed, lastEvent, stepsInInterval>>

\* setInterval keeps firing while the connection is open, so the timer is
\* never due for ever without a call
SpecTicking == Init /\ [][Tick]_vars /\ WF_now(TimerDue)

\* One subscriber connects with filter criteria when the process has started
\* and stays connected.
FilterNext ==
    \/ ConnectWith(1, FilterQueryChoices)
    \/ TimerFires(1)
    \/ subs[1].state # "idle" /\ AdvanceTime(MaxFilterTime)

SpecFilter == Init /\ [][FilterNext]_vars

\* ------------------------------------------------------------------------
\* Properties
\* ------------------------------------------------------------------------
\* the positions <<train, car, airway bill>> of the airway bills of a fleet
AwbPositions(fleet) ==
    UNION {UNION {{<<i, c, k>> : k \in 1..Len(fleet[i].cars[c].airwayBills)} :
                     c \in 1..Len(fleet[i].cars)} :
              i \in 1..Len(fleet)}

AwbAt(fleet, p) == fleet[p[1]].cars[p[2]].airwayBills[p[3]]

StatusRank(status) ==
    CASE status = LOADED -> 0
      [] status = IN_TRANSIT -> 1
      [] status = DELIVERED -> 2

\* 0-based index of a station code in a route
IndexIn(route, code) == CHOOSE k \in 0..(Len(route) - 1) : At(route, k) = code

\* the connections that have been open since before the current TICK_MS interval
OpenThroughInterval ==
    {s \in Subs : /\ subs[s].state = "open"
                  /\ subs[s].connectedAt < now - (now % PhasesPerTick)}

\* C1: with two or more subscribers connected throughout a TICK_MS interval,
\* updateTrains runs at most once in that interval
C1_OneClockStepPerInterval ==
    Cardinality(OpenThroughInterval) >= 2 => stepsInInterval <= 1

\* C2: every train's legProgress lies in [0, 1], initially and after every tick
C2_LegProgressInUnitInterval ==
    \A i \in 1..Len(trains) :
        /\ 0 <= trains[i].legProgress
        /\ trains[i].legProgress <= ProgressScale

\* a train has dwelt, rolled over to a later leg, moved and arrived again
C2_Witness ==
    \E i \in 1..Len(trains) :
        /\ trains[i].currentLegIndex >= 1
        /\ trains[i].legProgress = ProgressScale
        /\ trains[i].dwellRemainingHours > 0

\* C3: no step moves an airway bill's status backwards in the order
\* LOADED, IN_TRANSIT, DELIVERED
C3_StatusMonotonic ==
    [][\A p \in AwbPositions(trains) :
          StatusRank(AwbAt(trains', p).status) >= StatusRank(AwbAt(trains, p).status)]_vars

\* two airway bills loaded together at the same origin went IN_TRANSIT on the
\* leg, and one of them has since been DELIVERED
C3_Witness ==
    \E p, q \in AwbPositions(trains) :
        /\ AwbAt(trains, p).status = IN_TRANSIT
        /\ AwbAt(trains, q).status = DELIVERED
        /\ AwbAt(trains, p).originStationCode = AwbAt(trains, q).originStationCode
        /\ AwbAt(trains, p).loadedAt = AwbAt(trains, q).loadedAt
        /\ AwbAt(trains, q).deliveredAt > AwbAt(trains, p).lastUpdated

\* C4: a DELIVERED airway bill is frozen: no step changes its status,
\* deliveredAt, offloadedAtStationCode or lastUpdated
C4_DeliveredIsFrozen ==
    [][\A p \in AwbPositions(trains) :
          AwbAt(trains, p).status = DELIVERED =>
              /\ AwbAt(trains', p).status = DELIVERED
              /\ AwbAt(trains', p).deliveredAt = AwbAt(trains, p).deliveredAt
              /\ AwbAt(trains', p).offloadedAtStationCode
                     = AwbAt(trains, p).offloadedAtStationCode
              /\ AwbAt(trains', p).lastUpdated = AwbAt(trains, p).lastUpdated]_vars

\* the train has arrived a second time at the station where an airway bill was
\* delivered: after that delivery it delivered another one at the end of the
\* route, and it now stands at the end of the first leg again
C4_Witness ==
    \E p, q \in AwbPositions(trains) :
        LET train == trains[p[1]] IN
        /\ q[1] = p[1]
        /\ AwbAt(trains, p).status = DELIVERED
        /\ AwbAt(trains, p).offloadedAtStationCode = At(train.route, 1)
        /\ AwbAt(trains, q).status = DELIVERED
        /\ AwbAt(trains, q).offloadedAtStationCode = At(train.route, Len(train.route) - 1)
        /\ AwbAt(trains, q).deliveredAt > AwbAt(trains, p).deliveredAt
        /\ train.currentLegIndex = 0
        /\ train.legProgress = ProgressScale
        /\ train.lastUpdated > AwbAt(trains, q).deliveredAt

\* C5: every airway bill's destination differs from its origin and lies later
\* on the owning train's route
C5_DestinationAfterOrigin ==
    \A p \in AwbPositions(trains) :
        LET awb == AwbAt(trains, p)
            route == trains[p[1]].route
        IN  /\ awb.destStationCode # awb.originStationCode
            /\ IndexIn(route, awb.destStationCode) > IndexIn(route, awb.originStationCode)

\* C6: no two airway bills have the same awbNumber
C6_AwbNumbersUnique ==
    \A p, q \in AwbPositions(trains) :
        p # q => AwbAt(trains, p).awbNumber # AwbAt(trains, q).awbNumber

\* C7: no car holds more than MAX_AWBS_PER_CAR airway bills
C7_AtMostMaxAwbsPerCar ==
    \A i \in 1..Len(trains) : \A c \in 1..Len(trains[i].cars) :
        Len(trains[i].cars[c].airwayBills) <= MAX_AWBS_PER_CAR

\* railUpdate events written to connection s so far
EventsWritten(s) == subs[s].eventId - 1

\* C8: a subscriber has received one railUpdate event for its connection and
\* one for each firing of its interval timer
C8_DeliveryCadence ==
    \A s \in Subs : subs[s].state # "idle" => EventsWritten(s) = 1 + subs[s].timerFirings

\* C9: after its close event a connection's timer never fires again (nothing
\* is written to it, it triggers no clock step); the close leaves the fleet
\* and every other connection as they were; and every open connection has its
\* timer armed for the next interval
C9_DisconnectIsolated ==
    [][/\ \A s \in Subs :
             subs[s].state = "closed" =>
                 /\ subs'[s] = subs[s]
                 /\ lastEvent' # lastEvent => lastEvent'.to # s
       /\ \A s \in Subs :
             subs[s].state = "open" /\ subs'[s].state = "closed" =>
                 /\ trains' = trains
                 /\ lastEvent' = lastEvent
                 /\ \A r \in Subs \ {s} : subs'[r] = subs[r]
       /\ \A r \in Subs :
             subs'[r].state = "open" /\ ~crashed' =>
                 /\ subs'[r].interval
                 /\ subs'[r].nextFire
                        = subs'[r].connectedAt + (subs'[r].timerFirings + 1) * PhasesPerTick
                 /\ subs'[r].nextFire >= now']_vars

\* one connection was closed before its timer came due, and another connection
\* has received its interval event since
C9_Witness ==
    \E s, r \in Subs :
        /\ subs[s].state = "closed"
        /\ subs[s].timerFirings = 0
        /\ subs[s].nextFire <= now
        /\ subs[r].state = "open"
        /\ subs[r].timerFirings >= 1
        /\ lastEvent.to = r

\* all filter fields absent, or present and empty
NoCriteriaQueries ==
    {EmptyQuery,
     [awb |-> StringParam(<<>>), airwayBill |-> StringParam(<<>>),
      trainName |-> StringParam(<<>>), carNumber |-> StringParam(<<>>),
      station |-> StringParam(<<>>), status |-> StringParam(<<>>)]}

\* C10: applyFilters without criteria returns the snapshot list as it is: the
\* same trains, cars and airway bills in the same order
C10_NoCriteriaReturnsInput ==
    \A query \in NoCriteriaQueries :
        /\ ~applyFiltersThrows(getTrainSnapshots(trains, now), query)
        /\ applyFilters(getTrainSnapshots(trains, now), query)
               = getTrainSnapshots(trains, now)

\* an event was just written to a subscriber without criteria, for a dwelling
\* train that carries a delivered and a newly loaded airway bill
C10_Witness ==
    /\ lastEvent.id >= 2
    /\ subs[lastEvent.to].query = EmptyQuery
    /\ lastEvent.trains = getTrainSnapshots(trains, now)
    /\ \E p, q \in AwbPositions(trains) :
          /\ p # q
          /\ AwbAt(trains, p).status = DELIVERED
          /\ AwbAt(trains, q).status = LOADED
    /\ \E i \in 1..Len(trains) : trains[i].dwellRemainingHours > 0

\* the <<train id, car number, airway bill>> entries of a list of train snapshots
ItemsOf(list) ==
    {<<list[p[1]].id, list[p[1]].cars[p[2]].carNumber, AwbAt(list, p)>> :
        p \in AwbPositions(list)}

\* the <<train id, car number>> entries of a list of train snapshots
CarsOf(list) ==
    UNION {{<<list[i].id, list[i].cars[c].carNumber>> : c \in 1..Len(list[i].cars)} :
              i \in 1..Len(list)}

\* the train ids of a list of train snapshots
TrainsOf(list) == {list[i].id : i \in 1..Len(list)}

\* no train and no car is listed twice
NoDuplicates(list) ==
    /\ Cardinality(TrainsOf(list)) = Len(list)
    /\ \A i \in 1..Len(list) :
          Cardinality({list[i].cars[c].carNumber : c \in 1..Len(list[i].cars)})
              = Len(list[i].cars)

\* the airway bill names station `code` as origin, destination or offload station
NamesStation(awb, code) ==
    \/ awb.originStationCode = code
    \/ awb.destStationCode = code
    \/ awb.offloadedAtStationCode = code

\* the last n characters of str
Suffix(str, n) == SubSeq(str, Len(str) - n + 1, Len(str))

\* the queries with cargo-level matchers, each with the airway bills that
\* satisfy all of its matchers
C11_Queries == {AwbQuery, StationQuery, AwbStationQuery, AwbStationStatusQuery}

C11_Satisfies(query, awb) ==
    CASE query = AwbQuery ->
             SubSeq(awb.awbNumber, 1, 6) = <<"A", "W", "B", "-", "1", "2">>
      [] query = StationQuery ->
             NamesStation(awb, KC)
      [] query = AwbStationQuery ->
             Suffix(awb.awbNumber, 4) = <<"0", "0", "0", "1">> /\ NamesStation(awb, KC)
      [] query = AwbStationStatusQuery ->
             /\ Suffix(awb.awbNumber, 4) = <<"0", "0", "0", "1">>
             /\ NamesStation(awb, KC)
             /\ awb.status = DELIVERED

\* C11: with cargo-level matchers present, the output holds exactly the airway
\* bills that satisfy all present matchers, exactly the cars that hold such an
\* airway bill, and exactly the trains that hold such a car
C11_CargoLevelFiltering ==
    \A query \in C11_Queries :
        LET snapshots == getTrainSnapshots(trains, now)
            out == applyFilters(snapshots, query)
        IN  /\ ~applyFiltersThrows(snapshots, query)
            /\ ItemsOf(out) = {x \in ItemsOf(snapshots) : C11_Satisfies(query, x[3])}
            /\ CarsOf(out) = {<<x[1], x[2]>> : x \in ItemsOf(out)}
            /\ TrainsOf(out) = {x[1] : x \in ItemsOf(out)}
            /\ NoDuplicates(out)

\* a timer event was written for a subscriber with two matchers, and the fleet
\* holds an airway bill that satisfies both (kept), one that satisfies only the
\* cargo id matcher and one that satisfies only the station matcher (dropped)
C11_Witness ==
    /\ lastEvent.id >= 2
    /\ subs[lastEvent.to].query = AwbStationQuery
    /\ lastEvent.trains = applyFilters(getTrainSnapshots(trains, now), AwbStationQuery)
    /\ Len(lastEvent.trains) = 1
    /\ Len(lastEvent.trains[1].cars) < Len(trains[1].cars)
    /\ \E p, q \in AwbPositions(trains) :
          /\ Suffix(AwbAt(trains, p).awbNumber, 4) = <<"0", "0", "0", "1">>
          /\ ~NamesStation(AwbAt(trains, p), KC)
          /\ Suffix(AwbAt(trains, q).awbNumber, 4) # <<"0", "0", "0", "1">>
          /\ NamesStation(AwbAt(trains, q), KC)

\* the status-only queries, each with the status its value names
C12_Queries ==
    {<<StatusDeliveredQuery, DELIVERED>>,
     <<StatusInTransitQuery, IN_TRANSIT>>,
     <<StatusLoadedQuery, LOADED>>}

\* C12: with only a status filter naming status S in any letter case, the
\* output holds exactly the airway bills whose status is S, exactly the cars
\* that hold one, and exactly the trains that hold such a car
C12_StatusFilterExact ==
    \A qs \in C12_Queries :
        LET snapshots == getTrainSnapshots(trains, now)
            out == applyFilters(snapshots, qs[1])
        IN  /\ ~applyFiltersThrows(snapshots, qs[1])
            /\ \A i \in 1..Len(out) : \A c \in 1..Len(out[i].cars) :
                  /\ Len(out[i].cars[c].airwayBills) >= 1
                  /\ \A k \in 1..Len(out[i].cars[c].airwayBills) :
                        out[i].cars[c].airwayBills[k].status = qs[2]
            /\ \A x \in ItemsOf(snapshots) : x[3].status = qs[2] => x \in ItemsOf(out)
            /\ ItemsOf(out) \subseteq ItemsOf(snapshots)
            /\ \A i \in 1..Len(out) : Len(out[i].cars) >= 1
            /\ NoDuplicates(out)

\* a timer event was written for a ?status=delivered subscriber: the train
\* holds one delivered airway bill and two others in another car, and the
\* event lists the train with only the delivered airway bill's car
C12_Witness ==
    /\ lastEvent.id >= 2
    /\ subs[lastEvent.to].query = StatusDeliveredQuery
    /\ lastEvent.trains = applyFilters(getTrainSnapshots(trains, now), StatusDeliveredQuery)
    /\ Cardinality({p \in AwbPositions(trains) : AwbAt(trains, p).status = DELIVERED}) = 1
    /\ Cardinality({p \in AwbPositions(trains) : AwbAt(trains, p).status # DELIVERED}) = 2
    /\ Len(lastEvent.trains) = 1
    /\ Len(lastEvent.trains[1].cars) = 1
    /\ Len(lastEvent.trains[1].cars[1].airwayBills) = 1

\* a filter value that is not a string (a repeated query parameter)
MalformedQuery(query) ==
    \/ awbFilterOf(query).kind = "array"
    \/ query.trainName.kind = "array"
    \/ query.carNumber.kind = "array"
    \/ query.station.kind = "array"
    \/ query.status.kind = "array"

\* C13: a subscriber with a malformed filter value keeps its stream and is
\* sent events with an empty train list; no error leaves sendUpdate and the
\* process keeps running
C13_MalformedFilterDegrades ==
    /\ ~crashed
    /\ \A s \in Subs :
          subs[s].state # "idle" /\ MalformedQuery(subs[s].query) =>
              /\ subs[s].state # "failed"
              /\ EventsWritten(s) >= 1
              /\ lastEvent.to = s => lastEvent.trains = <<>>

\* C14: a station filter that is a substring of a station's name selects the
\* airway bills of that station: ?station=chicago lists exactly the airway
\* bills whose origin, destination or offload station is CHI (Chicago Rail Hub)
C14_StationFilterMatchesName ==
    LET snapshots == getTrainSnapshots(trains, now)
        out == applyFilters(snapshots, StationNameQuery)
    IN  ItemsOf(out) = {x \in ItemsOf(snapshots) : NamesStation(x[3], CHI)}

\* train i arrives at a station in this step: it was not dwelling and is
\* given a dwell
ArrivesInStep(i) ==
    /\ trains[i].dwellRemainingHours = 0
    /\ trains'[i].dwellRemainingHours > 0

\* the station train i stands at after an arrival
ArrivalStation(train) == At(train.route, train.currentLegIndex + 1)

C15_DeliveredFields ==
    \A p \in AwbPositions(trains) :
        LET awb == AwbAt(trains, p)
        IN  /\ awb.status = DELIVERED <=>
                   awb.deliveredAt # NullTime /\ awb.offloadedAtStationCode # NullCode
            /\ awb.status = DELIVERED => awb.offloadedAtStationCode = awb.destStationCode
            /\ awb.status # DELIVERED =>
                   awb.deliveredAt = NullTime /\ awb.offloadedAtStationCode = NullCode

C15_DeliveryStep ==
    \A p \in AwbPositions(trains) :
        LET awb == AwbAt(trains, p)
            after == AwbAt(trains', p)
            train == trains'[p[1]]
        IN  awb.status # DELIVERED =>
                /\ after.status = DELIVERED <=>
                       /\ ArrivesInStep(p[1])
                       /\ train.legProgress = ProgressScale
                       /\ ArrivalStation(train) = awb.destStationCode
                /\ after.status = DELIVERED =>
                       /\ after.offloadedAtStationCode = ArrivalStation(train)
                       /\ after.deliveredAt = now
                       /\ after.deliveredAt = train.lastUpdated

\* C15: an undelivered airway bill becomes DELIVERED in a tick if and only if
\* its train arrives in that tick at the airway bill's destination station,
\* and then offloadedAtStationCode is the arrival station and deliveredAt the
\* tick's timestamp; in every state an airway bill is DELIVERED iff deliveredAt
\* and offloadedAtStationCode are set, and then the offload station is the
\* destination
C15_DeliveredIffArrivalAtDestination ==
    []C15_DeliveredFields /\ [][C15_DeliveryStep]_vars

\* the train has just arrived at KC: the airway bill bound for KC was
\* delivered by this tick, the one bound for ATL was not
C15_Witness ==
    \E p, q \in AwbPositions(trains) :
        LET train == trains[p[1]] IN
        /\ q[1] = p[1]
        /\ train.legProgress = ProgressScale
        /\ ArrivalStation(train) = KC
        /\ AwbAt(trains, p).destStationCode = KC
        /\ AwbAt(trains, p).status = DELIVERED
        /\ AwbAt(trains, p).deliveredAt = train.lastUpdated
        /\ AwbAt(trains, q).destStationCode = ATL
        /\ AwbAt(trains, q).status # DELIVERED

\* C16: after a tick that leaves a train on the leg departing an airway bill's
\* origin station with legProgress > 0.05, the airway bill, unless DELIVERED,
\* is IN_TRANSIT
C16_InTransitPastThreshold ==
    \A p \in AwbPositions(trains) :
        LET train == trains[p[1]]
            awb == AwbAt(trains, p)
        IN  /\ train.lastUpdated # NullTime
            /\ awb.originStationCode = At(train.route, train.currentLegIndex)
            /\ train.legProgress * 100 > 5 * ProgressScale
            /\ awb.status # DELIVERED
            => awb.status = IN_TRANSIT

\* C17: a process configured with a non-positive train count stops at
\* startup: it never runs a clock step and never serves a subscriber
C17_ConfigErrorIsFatal ==
    ZeroTrainCount <= 0 =>
        /\ \A s \in Subs : subs[s].state = "idle"
        /\ stepsInInterval = 0
        /\ lastEvent = NoEvent

\* the step is a tick: updateTrains has run
IsTick == stepsInInterval' = stepsInInterval + 1

\* C18: a tick of a dwelling train counts dwellRemainingHours down by dtHours,
\* not below 0, sets displaySpeedKmh to 0, and leaves currentLegIndex,
\* legProgress, speedKmh and every car and airway bill of the train unchanged
C18_DwellingTick ==
    [][IsTick =>
          \A i \in 1..Len(trains) :
              trains[i].dwellRemainingHours > 0 =>
                  /\ trains'[i].dwellRemainingHours
                         = (IF trains[i].dwellRemainingHours - dtHours > 0
                            THEN trains[i].dwellRemainingHours - dtHours
                            ELSE 0)
                  /\ trains'[i].displaySpeedKmh = 0
                  /\ trains'[i].currentLegIndex = trains[i].currentLegIndex
                  /\ trains'[i].legProgress = trains[i].legProgress
                  /\ trains'[i].speedKmh = trains[i].speedKmh
                  /\ trains'[i].cars = trains[i].cars
                  /\ trains'[i].route = trains[i].route]_vars

\* a train that arrived with the longest dwell has been ticked once while
\* dwelling and is still dwelling; it carries a delivered and an undelivered
\* airway bill
C18_Witness ==
    \E i \in 1..Len(trains) :
        /\ trains[i].dwellRemainingHours = MAX_DWELL_MINUTES - dtHours
        /\ trains[i].dwellRemainingHours > 0
        /\ trains[i].legProgress = ProgressScale
        /\ trains[i].displaySpeedKmh = 0
        /\ \E p, q \in AwbPositions(trains) :
              /\ p[1] = i /\ q[1] = i
              /\ AwbAt(trains, p).status = DELIVERED
              /\ AwbAt(trains, q).status = LOADED

\* legProgress of a non-dwelling train after this tick's rollover and increment
ProgressAfterIncrement(train) ==
    LET rolled == Rollover(train)
        fromCode == At(rolled.route, rolled.currentLegIndex)
        toCode == At(rolled.route, rolled.currentLegIndex + 1)
    IN  rolled.legProgress
            + ProgressIncrement(rolled, haversineKm(stationByCode(fromCode),
                                                    stationByCode(toCode)))

\* C19: a tick in which a non-dwelling train's legProgress reaches 1 after the
\* increment sets legProgress to exactly 1, displaySpeedKmh to 0 and
\* dwellRemainingHours to a value between MIN_DWELL_MINUTES and
\* MAX_DWELL_MINUTES; no other tick gives dwellRemainingHours a positive value
C19_ArrivalStep ==
    [][IsTick =>
          \A i \in 1..Len(trains) :
              IF trains[i].dwellRemainingHours = 0
                 /\ ProgressAfterIncrement(trains[i]) >= ProgressScale
              THEN /\ trains'[i].legProgress = ProgressScale
                   /\ trains'[i].displaySpeedKmh = 0
                   /\ trains'[i].dwellRemainingHours >= MIN_DWELL_MINUTES
                   /\ trains'[i].dwellRemainingHours <= MAX_DWELL_MINUTES
              ELSE trains'[i].dwellRemainingHours > 0 =>
                       /\ trains[i].dwellRemainingHours > 0
                       /\ trains'[i].dwellRemainingHours
                              < trains[i].dwellRemainingHours]_vars

\* a train has just arrived at the end of its route's final leg and was given
\* the shortest dwell
C19_Witness ==
    \E i \in 1..Len(trains) :
        /\ trains[i].currentLegIndex = Len(trains[i].route) - 2
        /\ trains[i].legProgress = ProgressScale
        /\ trains[i].displaySpeedKmh = 0
        /\ trains[i].dwellRemainingHours = MIN_DWELL_MINUTES
        /\ trains[i].lastUpdated = now

C20_ValidLeg ==
    \A i \in 1..Len(trains) :
        /\ 0 <= trains[i].currentLegIndex
        /\ trains[i].currentLegIndex <= Len(trains[i].route) - 2

\* the leg that follows leg k of a route in cyclic order
NextLeg(route, k) == IF k = Len(route) - 2 THEN 0 ELSE k + 1

C20_LegStep ==
    \A i \in 1..Len(trains) :
        IF IsTick /\ trains[i].dwellRemainingHours = 0
                  /\ trains[i].legProgress >= ProgressScale
        THEN trains'[i].currentLegIndex
                 = NextLeg(trains[i].route, trains[i].currentLegIndex)
        ELSE trains'[i].currentLegIndex = trains[i].currentLegIndex

\* C20: currentLegIndex always indexes a leg of the route, and changes only in
\* the rollover step after a finished leg: by +1, and from the final leg to 0
C20_CyclicLegOrder == []C20_ValidLeg /\ [][C20_LegStep]_vars

\* the train has completed the final leg of its route (it delivered an airway
\* bill at the last station), has wrapped to leg 0 and is under way on it
C20_Witness ==
    \E p \in AwbPositions(trains) :
        LET train == trains[p[1]] IN
        /\ AwbAt(trains, p).offloadedAtStationCode = At(train.route, Len(train.route) - 1)
        /\ train.currentLegIndex = 0
        /\ train.legProgress > 0
        /\ train.legProgress < ProgressScale
        /\ train.lastUpdated > AwbAt(trains, p).deliveredAt

\* C21: a train's displaySpeedKmh is 0 if the train is dwelling and equals its
\* speedKmh otherwise
C21_DisplaySpeedFromDwell ==
    \A i \in 1..Len(trains) :
        trains[i].displaySpeedKmh
            = (IF trains[i].dwellRemainingHours > 0 THEN 0 ELSE trains[i].speedKmh)

C21_DisplaySpeedState ==
    \A i \in 1..Len(trains) :
        /\ trains[i].dwellRemainingHours > 0 => trains[i].legProgress = ProgressScale
        /\ trains[i].legProgress = ProgressScale => trains[i].displaySpeedKmh = 0
        /\ trains[i].legProgress < ProgressScale =>
               /\ trains[i].displaySpeedKmh - trains[i].speedKmh <= 5
               /\ trains[i].speedKmh - trains[i].displaySpeedKmh <= 5
               /\ trains[i].displaySpeedKmh > 0

C21_DisplaySpeedStep ==
    IsTick =>
        \A i \in 1..Len(trains) :
            trains'[i].legProgress < ProgressScale =>
                trains'[i].displaySpeedKmh = trains[i].speedKmh

\* C21 (amended): displaySpeedKmh is 0 while the train stands at a station
\* (legProgress = 1: every dwelling state and the state after the dwell's last
\* tick); on a leg it is the speed the train moved at in its last tick, which
\* is speedKmh as it was before that tick and differs from the current
\* speedKmh by at most 5
C21_DisplaySpeedAmended == []C21_DisplaySpeedState /\ [][C21_DisplaySpeedStep]_vars

\* a mid-transit tick has just lowered speedKmh: the train is on its leg and
\* displays the speed it moved at
C21_Witness ==
    \E i \in 1..Len(trains) :
        /\ trains[i].lastUpdated = now
        /\ trains[i].legProgress < ProgressScale
        /\ trains[i].dwellRemainingHours = 0
        /\ trains[i].displaySpeedKmh = trains[i].speedKmh + 5

\* train i is dwelling at a station after arrival
Dwelling(train) == train.dwellRemainingHours > 0 /\ train.legProgress >= ProgressScale

C22_DwellingSnapshotFields ==
    \A i \in 1..Len(trains) :
        LET train == trains[i]
            snapshot == getTrainSnapshots(trains, now)[i]
            station == stationByCode(ArrivalStation(train))
        IN  Dwelling(train) =>
                /\ snapshot.speedKmh = 0
                /\ snapshot.legProgress = 0
                /\ snapshot.fromStationCode = ArrivalStation(train)
                /\ snapshot.toStationCode = ArrivalStation(train)
                /\ snapshot.currentLocation = [lat |-> station.lat * 100,
                                               lon |-> station.lon * 100]

C22_DwellingSnapshotStep ==
    \A i \in 1..Len(trains) :
        IsTick /\ Dwelling(trains[i]) /\ Dwelling(trains'[i]) =>
            getTrainSnapshots(trains', now')[i].currentLocation
                = getTrainSnapshots(trains, now)[i].currentLocation

\* C22: the snapshot of a dwelling train reports speedKmh 0, legProgress 0,
\* the arrival station route[currentLegIndex + 1] as fromStationCode and
\* toStationCode, and that station's coordinates as currentLocation; the
\* reported location stays the same across the ticks of one dwell
C22_DwellingSnapshot ==
    []C22_DwellingSnapshotFields /\ [][C22_DwellingSnapshotStep]_vars

\* the event just written shows a train that has been ticked once while
\* dwelling at KC: it stands at Kansas City's coordinates
C22_Witness ==
    /\ lastEvent.id >= 2
    /\ Len(lastEvent.trains) = 1
    /\ lastEvent.trains = getTrainSnapshots(trains, now)
    /\ Dwelling(trains[1])
    /\ trains[1].dwellRemainingHours = MAX_DWELL_MINUTES - dtHours
    /\ lastEvent.trains[1].fromStationCode = KC
    /\ lastEvent.trains[1].toStationCode = KC
    /\ lastEvent.trains[1].currentLocation = [lat |-> 3910400, lon |-> -9459800]

\* legProgress values the interpolation is examined at
ProgressSamples == {0, 1, 3333, 5000, ProgressScale - 1, ProgressScale}

\* v lies between a and b
Between(v, a, b) == Min(a, b) <= v /\ v <= Max(a, b)

\* the coordinates of a station in the unit of the snapshot (1e-5 degree)
CoordinatesOf(code) ==
    [lat |-> stationByCode(code).lat * 100, lon |-> stationByCode(code).lon * 100]

\* the claim for the snapshot of one train that is not dwelling
C23_EndpointsOf(train) ==
    LET location == TrainSnapshot(train, now).currentLocation
        from == CoordinatesOf(At(train.route, train.currentLegIndex))
        to == CoordinatesOf(At(train.route, train.currentLegIndex + 1))
    IN  /\ train.legProgress = 0 => location = from
        /\ train.legProgress = ProgressScale => location = to
        /\ Between(location.lat, from.lat, to.lat)
        /\ Between(location.lon, from.lon, to.lon)

\* C23: the snapshot of a non-dwelling train is at the leg's origin station
\* exactly when legProgress = 0, at the leg's destination station exactly when
\* legProgress = 1, and between the two stations component-wise for every
\* legProgress; examined for every train of the fleet as it is and as it would
\* be at each sampled legProgress of its leg
C23_InterpolationEndpoints ==
    \A i \in 1..Len(trains) :
        /\ ~Dwelling(trains[i]) => C23_EndpointsOf(trains[i])
        /\ \A t \in ProgressSamples :
              C23_EndpointsOf([trains[i] EXCEPT !.legProgress = t,
                                               !.dwellRemainingHours = 0])

\* the event just written shows a train whose dwell at KC has just run out:
\* it is no longer dwelling, stands at legProgress 1 of the leg CHI-KC and is
\* reported at Kansas City's coordinates
C23_Witness ==
    /\ lastEvent.id >= 2
    /\ Len(lastEvent.trains) = 1
    /\ lastEvent.trains = getTrainSnapshots(trains, now)
    /\ trains[1].dwellRemainingHours = 0
    /\ trains[1].legProgress = ProgressScale
    /\ lastEvent.trains[1].fromStationCode = CHI
    /\ lastEvent.trains[1].toStationCode = KC
    /\ lastEvent.trains[1].legProgress = 1000
    /\ lastEvent.trains[1].currentLocation = [lat |-> 3910400, lon |-> -9459800]

\* the leg a tick of a non-dwelling train looks up has an unresolved station
LooksUpUnresolvedLeg(train) ==
    LET rolled == Rollover(train)
    IN  /\ train.dwellRemainingHours = 0
        /\ \/ ~StationResolves(At(rolled.route, rolled.currentLegIndex))
           \/ ~StationResolves(At(rolled.route, rolled.currentLegIndex + 1))

C25_SpeedInRange ==
    \A i \in 1..Len(trains) :
        30 <= trains[i].speedKmh /\ trains[i].speedKmh <= 110

C25_SpeedStep ==
    \A i \in 1..Len(trains) :
        /\ trains'[i].speedKmh - trains[i].speedKmh <= 5
        /\ trains[i].speedKmh - trains'[i].speedKmh <= 5
        /\ trains'[i].speedKmh # trains[i].speedKmh =>
               /\ IsTick
               /\ trains[i].dwellRemainingHours = 0
               /\ trains'[i].dwellRemainingHours = 0
               /\ trains'[i].legProgress < ProgressScale

\* C25: speedKmh stays within 30..110; it changes only in a mid-transit tick,
\* never in a dwelling or arrival tick, and by at most 5 per tick
C25_SpeedBounded == []C25_SpeedInRange /\ [][C25_SpeedStep]_vars

\* a mid-transit tick has just brought speedKmh down to the lower bound
C25_Witness ==
    \E i \in 1..Len(trains) :
        /\ trains[i].speedKmh = 30
        /\ trains[i].displaySpeedKmh = 35
        /\ trains[i].legProgress < ProgressScale
        /\ trains[i].lastUpdated = now

\* the fields of an airway bill that never change
FixedFields(awb) ==
    <<awb.awbNumber, awb.originStationCode, awb.destStationCode, awb.pieces,
      awb.weightKg, awb.loadedAt>>

C26_CarStep(i, c) ==
    LET before == trains[i].cars[c].airwayBills
        after == trains'[i].cars[c].airwayBills
    IN  /\ Len(after) >= Len(before)
        /\ Len(after) <= Len(before) + 1
        /\ \A k \in 1..Len(before) : FixedFields(after[k]) = FixedFields(before[k])
        /\ Len(after) = Len(before) + 1 =>
               /\ IsTick
               /\ ArrivesInStep(i)
               /\ after[Len(after)].status = LOADED
               /\ after[Len(after)].deliveredAt = NullTime
               /\ after[Len(after)].offloadedAtStationCode = NullCode
               /\ after[Len(after)].originStationCode = ArrivalStation(trains'[i])

\* C26: in every tick each car's airway bill list keeps its airway bills in
\* their order, with awbNumber, origin, destination, pieces, weight and
\* loadedAt unchanged, followed by at most one new airway bill; a new one is
\* appended only when the train arrives, is LOADED, has null deliveredAt and
\* offload station, and originates at the arrival station
C26_CargoAppendOnly ==
    [][\A i \in 1..Len(trains) : \A c \in 1..Len(trains[i].cars) : C26_CarStep(i, c)]_vars

\* the tick just run was an arrival that delivered a car's first airway bill
\* and appended a new one behind it
C26_Witness ==
    \E i \in 1..Len(trains) : \E c \in 1..Len(trains[i].cars) :
        LET awbs == trains[i].cars[c].airwayBills IN
        /\ trains[i].lastUpdated = now
        /\ Len(awbs) = 2
        /\ awbs[1].status = DELIVERED
        /\ awbs[1].deliveredAt = now
        /\ awbs[2].status = LOADED
        /\ awbs[2].loadedAt = now
        /\ awbs[2].originStationCode = ArrivalStation(trains[i])
        /\ awbs[1].loadedAt < awbs[2].loadedAt

PacificRunner1 == <<"P", "a", "c", "i", "f", "i", "c", " ", "R", "u", "n", "n", "e", "r", " ", "1">>
AllTrainNames == {PacificRunner1}
Car2 == <<"R", "1", "0", "0", "2">>
AllCarNumbers == {generateCarNumber(0, c) : c \in 0..(MaxCars - 1)}

\* the queries with train-level and car-level matchers, each with the train
\* names and the car numbers that contain its matchers
C28_Queries ==
    {<<TrainNameQuery, AllTrainNames, AllCarNumbers>>,
     <<OtherTrainNameQuery, {}, AllCarNumbers>>,
     <<CarNumberQuery, AllTrainNames, {Car2}>>,
     <<AnyCarNumberQuery, AllTrainNames, AllCarNumbers>>,
     <<NoCarNumberQuery, AllTrainNames, {}>>,
     <<TrainNameCarNumberQuery, AllTrainNames, {Car2}>>}

\* C28: with a train-name matcher a train is listed only if its name contains
\* the matcher in any letter case; with a car-number matcher a listed train's
\* cars are exactly its cars whose carNumber contains the matcher, in their
\* order; every other field of a listed train is passed through unchanged
C28_TrainAndCarFiltering ==
    \A q \in C28_Queries :
        LET snapshots == getTrainSnapshots(trains, now)
            out == applyFilters(snapshots, q[1])
            matching(train) == SelectSeq(train.cars, LAMBDA car : car.carNumber \in q[3])
            listed == SelectSeq(snapshots,
                          LAMBDA train : /\ train.name \in q[2]
                                         /\ Len(matching(train)) > 0)
        IN  /\ ~applyFiltersThrows(snapshots, q[1])
            /\ Len(out) = Len(listed)
            /\ \A j \in 1..Len(out) :
                  /\ out[j].cars = matching(listed[j])
                  /\ [out[j] EXCEPT !.cars = <<>>] = [listed[j] EXCEPT !.cars = <<>>]

\* a timer event was written for a ?trainName=RUNNER&carNumber=r1002
\* subscriber: it lists the train Pacific Runner 1 with car R1002 only
C28_Witness ==
    /\ lastEvent.id >= 2
    /\ subs[lastEvent.to].query = TrainNameCarNumberQuery
    /\ Len(lastEvent.trains) = 1
    /\ lastEvent.trains[1].name = PacificRunner1
    /\ Len(trains[1].cars) = 2
    /\ Len(lastEvent.trains[1].cars) = 1
    /\ lastEvent.trains[1].cars[1] = trains[1].cars[2]
    /\ lastEvent.trains[1].cars[1].carNumber = Car2

\* the positions an airway bill can have in the fleets explored
AllAwbPositions == (1..TRAIN_COUNT) \X (1..MaxCars) \X (1..MaxCargoPerCar)

\* the airway bill at position p exists and is DELIVERED
DeliveredAt(p) ==
    p \in AwbPositions(trains) /\ AwbAt(trains, p).status = DELIVERED

\* C29: under unbounded fair ticking every airway bill, initial or loaded on
\* an arrival, is eventually DELIVERED
C29_EventuallyDelivered ==
    \A p \in AllAwbPositions : (p \in AwbPositions(trains)) ~> DeliveredAt(p)

\* every airway bill of the fleet has been delivered, among them one that was
\* loaded at a station on the way and one whose destination is its own origin
C29_Witness ==
    /\ \A p \in AwbPositions(trains) : DeliveredAt(p)
    /\ \E p, q \in AwbPositions(trains) :
          /\ AwbAt(trains, p).originStationCode = KC
          /\ AwbAt(trains, p).destStationCode = ATL
          /\ AwbAt(trains, q).originStationCode = AwbAt(trains, q).destStationCode

\* the train's dwell has run out and the next tick starts its next leg
DwellOver(train) ==
    train.dwellRemainingHours = 0 /\ train.legProgress >= ProgressScale

C30_DwellEnds ==
    \A i \in 1..TRAIN_COUNT :
        (trains[i].dwellRemainingHours > 0) ~> DwellOver(trains[i])

C30_ArrivesAgain ==
    \A i \in 1..TRAIN_COUNT : []<>(trains[i].legProgress = ProgressScale)

C30_UnclampedDeparture ==
    \A i \in 1..Len(trains) :
        DwellOver(trains[i]) =>
            /\ trains'[i].currentLegIndex
                   = NextLeg(trains[i].route, trains[i].currentLegIndex)
            /\ trains'[i].legProgress = ProgressAfterIncrement(trains[i])

C30_ClampedDeparture ==
    \A i \in 1..Len(trains) :
        DwellOver(trains[i]) =>
            /\ trains'[i].currentLegIndex
                   = NextLeg(trains[i].route, trains[i].currentLegIndex)
            /\ trains'[i].legProgress
                   = Min(ProgressScale, ProgressAfterIncrement(trains[i]))
            /\ trains'[i].dwellRemainingHours > 0
                   <=> ProgressAfterIncrement(trains[i]) >= ProgressScale

\* C30: under fair ticking every dwell runs out, the tick after it starts the
\* next leg at legProgress 0 plus one increment, and every train arrives at a
\* station (legProgress = 1) again and again
C30_DwellEndsAndCycles ==
    C30_DwellEnds /\ [][C30_UnclampedDeparture]_vars /\ C30_ArrivesAgain

\* C30 (amended): as C30, but the tick after the dwell leaves legProgress at
\* the smaller of 1 and one increment: an increment of 1 or more finishes the
\* next leg in that same tick and the train dwells again
C30_DwellEndsAndCyclesClamped ==
    C30_DwellEnds /\ [][C30_ClampedDeparture]_vars /\ C30_ArrivesAgain

\* a train whose dwell has run out at the last station of its route, ready to
\* wrap to leg 0, and that carries a delivered airway bill loaded on the way
C30_Witness ==
    \E i \in 1..Len(trains) :
        /\ DwellOver(trains[i])
        /\ trains[i].currentLegIndex = Len(trains[i].route) - 2
        /\ \E p \in AwbPositions(trains) :
              p[1] = i /\ p[3] > 1 /\ AwbAt(trains, p).status = DELIVERED

\* C31: dwellRemainingHours is never negative, and a train with
\* dwellRemainingHours > 0 has legProgress = 1, so that the snapshot's dwelling
\* test (dwellRemainingHours > 0 and legProgress >= 1) is true of every train
\* with time left to dwell
C31_DwellingAtEndOfLeg ==
    \A i \in 1..Len(trains) :
        /\ trains[i].dwellRemainingHours >= 0
        /\ trains[i].dwellRemainingHours > 0 =>
               /\ trains[i].legProgress = ProgressScale
               /\ Dwelling(trains[i])

\* a train in the middle of a dwell: it arrived with the longest dwell and a
\* countdown tick has taken dtHours off without finishing it
C31_Witness ==
    \E i \in 1..Len(trains) :
        /\ trains[i].dwellRemainingHours > 0
        /\ trains[i].dwellRemainingHours = MAX_DWELL_MINUTES - dtHours
        /\ trains[i].legProgress = ProgressScale

\* subscriber s runs sendUpdate in this step: its request is accepted, or its
\* interval timer is due and fires
RunsSendUpdate(s) ==
    \/ subs[s].state = "idle" /\ subs'[s].state # "idle"
    \/ /\ subs[s].interval
       /\ subs[s].nextFire = now
       /\ subs'[s].timerFirings = subs[s].timerFirings + 1

\* no subscriber is connected before the step and none connects in it
NobodyConnected ==
    \A s \in Subs : subs[s].state # "open" /\ subs'[s].state # "open"

C32_FleetStep ==
    /\ trains' # trains => \E s \in Subs : RunsSendUpdate(s)
    /\ NobodyConnected => trains' = trains

\* C32: the fleet changes only in a step in which a subscriber's sendUpdate
\* runs (on connect or on its interval); it stays as it is while no subscriber
\* is connected, whatever time passes and however often /api/info is asked
C32_AdvancesOnlyOnDelivery == [][C32_FleetStep]_vars

\* every subscriber has connected and left again, the clock has moved on since,
\* and the fleet is no longer the one the process started with
C32_Witness ==
    /\ \A s \in Subs : subs[s].state = "closed" /\ subs[s].connectedAt < now
    /\ now = MaxTime
    /\ \E i \in 1..Len(trains) : trains[i].lastUpdated >= 0

\* xs is ys with some elements left out: the elements of xs occur in ys in
\* the same relative order
RECURSIVE AwbsPrunedFrom(_, _)
AwbsPrunedFrom(xs, ys) ==
    IF xs = <<>> THEN TRUE
    ELSE IF ys = <<>> THEN FALSE
    ELSE \/ Head(xs) = Head(ys) /\ AwbsPrunedFrom(Tail(xs), Tail(ys))
         \/ AwbsPrunedFrom(xs, Tail(ys))

\* car x is car y with some airway bills left out
CarPrunedFrom(x, y) ==
    /\ x = [y EXCEPT !.airwayBills = x.airwayBills]
    /\ AwbsPrunedFrom(x.airwayBills, y.airwayBills)

RECURSIVE CarsPrunedFrom(_, _)
CarsPrunedFrom(xs, ys) ==
    IF xs = <<>> THEN TRUE
    ELSE IF ys = <<>> THEN FALSE
    ELSE \/ CarPrunedFrom(Head(xs), Head(ys)) /\ CarsPrunedFrom(Tail(xs), Tail(ys))
         \/ CarsPrunedFrom(xs, Tail(ys))

\* train snapshot x is snapshot y with some cars and airway bills left out
TrainPrunedFrom(x, y) ==
    /\ x = [y EXCEPT !.cars = x.cars]
    /\ CarsPrunedFrom(x.cars, y.cars)

RECURSIVE TrainsPrunedFrom(_, _)
TrainsPrunedFrom(xs, ys) ==
    IF xs = <<>> THEN TRUE
    ELSE IF ys = <<>> THEN FALSE
    ELSE \/ TrainPrunedFrom(Head(xs), Head(ys)) /\ TrainsPrunedFrom(Tail(xs), Tail(ys))
         \/ TrainsPrunedFrom(xs, Tail(ys))

\* criteria of every level, alone and combined, matching and not, and
\* repeated parameters
C33_Queries ==
    {EmptyQuery, AwbQuery, StationQuery, AwbStationStatusQuery,
     StatusDeliveredQuery, StatusLoadedQuery, OtherTrainNameQuery,
     CarNumberQuery, NoCarNumberQuery, TrainNameCarNumberQuery,
     RepeatedStatusQuery, RepeatedStatusLateAwbQuery}

\* C33: whenever applyFilters(L, Q) returns, applying it again with the same
\* criteria returns the same list, and the list is L with trains, cars and
\* airway bills left out, the rest unchanged and in the order of L
C33_IdempotentAndPruning ==
    LET snapshots == getTrainSnapshots(trains, now)
    IN  \A query \in C33_Queries :
            ~applyFiltersThrows(snapshots, query) =>
                LET once == applyFilters(snapshots, query)
                IN  /\ ~applyFiltersThrows(once, query)
                    /\ applyFilters(once, query) = once
                    /\ TrainsPrunedFrom(once, snapshots)

\* a car holds two airway bills of which the status filter keeps the first
\* alone, and another filter keeps both
C33_Witness ==
    LET snapshots == getTrainSnapshots(trains, now)
        delivered == applyFilters(snapshots, StatusDeliveredQuery)
        station == applyFilters(snapshots, StationQuery)
    IN  /\ Len(delivered) > 0
        /\ \E i \in 1..Len(snapshots) : \E c \in 1..Len(snapshots[i].cars) :
              /\ Len(snapshots[i].cars[c].airwayBills) = 2
              /\ snapshots[i].cars[c].airwayBills[1].status = DELIVERED
              /\ snapshots[i].cars[c].airwayBills[2].status # DELIVERED
        /\ \E i \in 1..Len(station) : \E c \in 1..Len(station[i].cars) :
              Len(station[i].cars[c].airwayBills) = 2

====
